---- MODULE Spec2Model ----
(***************************************************************************)
(* A model of Curves3D.cpp: the three curve classes (Circle, Ellipse,      *)
(* Helix) with their clamping constructors, and the pipeline of main():    *)
(* populate, evaluate, filter by dynamic type, sort by radius, print,      *)
(* aggregate.                                                              *)
(*                                                                         *)
(* Numbers.  A C++ double is modelled as a binary floating-point number    *)
(* with Precision significant bits instead of 53.  A finite value is an    *)
(* integer counting units of 2^-(Precision-1), so 1.0 is One, and the      *)
(* doubles at or above 1.0 are the integers with at most Precision         *)
(* significant bits.  Addition rounds to nearest, ties to even, as the     *)
(* hardware does.  NaN is one extra value on which every ordered           *)
(* comparison is false.                                                    *)
(*                                                                         *)
(* Objects.  std::make_shared allocates a new object; heap is the sequence *)
(* of the objects allocated so far and a std::shared_ptr is an index into  *)
(* it, so two containers holding the same index share one instance.        *)
(***************************************************************************)
EXTENDS Integers, Sequences, FiniteSets

VARIABLES
    pc,       \* the position of main(), or of the driver of a constructor / sort specification
    i,        \* the loop variable of the loop main() is in
    heap,     \* the curve objects allocated so far, in allocation order
    calls,    \* the constructor call that made each object of heap: class and arguments
    curves,   \* std::vector<std::shared_ptr<Curve>> curves
    circles,  \* std::vector<std::shared_ptr<Circle>> circles
    sum,      \* double sum
    out       \* the lines written to std::cout

vars == <<pc, i, heap, calls, curves, circles, sum, out>>

---------------------------------------------------------------------------
(* Bounds of the model *)

\* the number of curves main() creates (10 in the source, line 87)
NumCurves == 3

\* the number of significant bits of a double (53 on the hardware)
Precision == 3

\* the number of constructor calls the constructor specification makes
MaxCalls == 2

---------------------------------------------------------------------------
(* double *)

One == 2 ^ (Precision - 1)

NaN == 0 - 2 ^ (Precision + 8)

\* a > b on doubles: false when either side is NaN
Gt(a, b) == a # NaN /\ b # NaN /\ a > b

\* a < b on doubles: false when either side is NaN
Lt(a, b) == a # NaN /\ b # NaN /\ a < b

RECURSIVE Quantum(_, _)
\* the spacing of the doubles around n >= 0: the least q = 2^e with n < 2^Precision * q
Quantum(n, q) == IF n < (2 ^ Precision) * q THEN q ELSE Quantum(n, 2 * q)

\* the double nearest to the exact value n >= 0, ties to the even significand
RoundSig(n) ==
    LET q   == Quantum(n, 1)
        lo  == (n \div q) * q
        rem == n - lo
    IN  IF 2 * rem < q THEN lo
        ELSE IF 2 * rem > q THEN lo + q
        ELSE IF (lo \div q) % 2 = 0 THEN lo ELSE lo + q

\* a + b on finite doubles that are 0 or at least 1.0
FAdd(a, b) == RoundSig(a + b)

\* std::uniform_real_distribution<> dist(1.0, 10.0): every double in [1.0, 10.0)
Dist == {v \in One .. (10 * One - 1) : RoundSig(v) = v}

\* the values of dist(gen) that main() draws in the model: 1.0 + 1 ulp and 8.0
Samples == {v \in Dist : v \in {One + 1, 8 * One}}

\* the radii of the sort specification: 1.0 + 1 ulp, 2.0 and 8.0
SortSamples == {v \in Dist : v \in {One + 1, 2 * One, 8 * One}}

\* constructor arguments of the constructor specification: NaN, -2.0, 0.0, 1.0, 3.0
ArgValues == {NaN, 0 - 2 * One, 0, One, 3 * One}

---------------------------------------------------------------------------
(* The curve classes *)

\* Circle::Circle with the test radius >= 0 in place of radius > 0
CircleNonNegative(radius) ==
    [tag |-> "Circle", r |-> IF radius # NaN /\ radius >= 0 THEN radius ELSE One]

\* Circle::Circle(double radius)
Circle(radius) ==
    [tag |-> "Circle", r |-> IF Gt(radius, 0) THEN radius ELSE One]

\* Ellipse::Ellipse(double rx_, double ry_)
Ellipse(rx_, ry_) ==
    [tag |-> "Ellipse",
     rx  |-> IF Gt(rx_, 0) THEN rx_ ELSE One,
     ry  |-> IF Gt(ry_, 0) THEN ry_ ELSE One]

\* Helix::Helix with the pitch clamped like the radius
HelixClampsStep(radius, step_) ==
    [tag  |-> "Helix",
     r    |-> IF Gt(radius, 0) THEN radius ELSE One,
     step |-> IF Gt(step_, 0) THEN step_ ELSE One]

\* Helix::Helix(double radius, double step_)
Helix(radius, step_) ==
    [tag |-> "Helix", r |-> IF Gt(radius, 0) THEN radius ELSE One, step |-> step_]

\* Circle::getRadius
getRadius(c) == c.r

\* A product coef * f(t) is kept as the pair of its factors: f names the
\* factor that depends on t ("cos" is cos(t), "t/2pi" is t / (2 * M_PI), ...).
Times(coef, f) == <<coef, f>>

\* the literal 0.0 of a z component
Zero == <<0, "1">>

\* Curve::getPoint, dispatched on the dynamic type
getPoint(c) ==
    CASE c.tag = "Circle"  -> [x |-> Times(c.r, "cos"),  y |-> Times(c.r, "sin"),  z |-> Zero]
      [] c.tag = "Ellipse" -> [x |-> Times(c.rx, "cos"), y |-> Times(c.ry, "sin"), z |-> Zero]
      [] c.tag = "Helix"   -> [x |-> Times(c.r, "cos"),  y |-> Times(c.r, "sin"),
                               z |-> Times(c.step, "t/2pi")]

\* Curve::getDerivative, dispatched on the dynamic type
getDerivative(c) ==
    CASE c.tag = "Circle"  -> [x |-> Times(0 - c.r, "sin"),  y |-> Times(c.r, "cos"),  z |-> Zero]
      [] c.tag = "Ellipse" -> [x |-> Times(0 - c.rx, "sin"), y |-> Times(c.ry, "cos"), z |-> Zero]
      [] c.tag = "Helix"   -> [x |-> Times(0 - c.r, "sin"),  y |-> Times(c.r, "cos"),
                               z |-> Times(c.step, "1/2pi")]

\* a type test that takes every curve with a z of 0.0 for a Circle
IsPlanar(ref) == heap[ref].tag # "Helix"

\* std::dynamic_pointer_cast<Circle>(c) is non-null
IsCircle(ref) == heap[ref].tag = "Circle"

---------------------------------------------------------------------------
(* The lines of std::cout *)

TextLine(s)      == [kind |-> "text", text |-> s]
PointLine(c)     == [kind |-> "point", point |-> getPoint(c), derivative |-> getDerivative(c)]
RadiusLine(v)    == [kind |-> "radius", value |-> v]
SumLine(v)       == [kind |-> "sum", value |-> v]

---------------------------------------------------------------------------
(* std::sort *)

\* every rearrangement of the sequence s
Permutations(s) ==
    LET n == Len(s)
    IN  {[k \in 1 .. n |-> s[p[k]]] :
            p \in {f \in [1 .. n -> 1 .. n] : \A a, b \in 1 .. n : f[a] = f[b] => a = b}}

\* the comparator with > in place of <
ByRadiusDescending(a, b) == Lt(getRadius(heap[b]), getRadius(heap[a]))

\* the comparator of the sort: a->getRadius() < b->getRadius()
ByRadius(a, b) == Lt(getRadius(heap[a]), getRadius(heap[b]))

\* std::sort(circles.begin(), circles.end(), comp): the range is left sorted
\* with respect to comp; the order of equivalent elements is unspecified, so
\* every sorted rearrangement is a possible result.
StdSort(s) ==
    {t \in Permutations(s) : \A a, b \in 1 .. Len(t) : a < b => ~ByRadius(t[b], t[a])}

RECURSIVE SumFrom(_, _, _)
\* for (const auto& c : s) acc += c->getRadius();  from position k on
SumFrom(s, k, acc) ==
    IF k > Len(s) THEN acc ELSE SumFrom(s, k + 1, FAdd(acc, getRadius(heap[s[k]])))

\* the sum with the first element left out
SumRadiiSkipFirst(s) == SumFrom(s, 2, 0)

\* the sum started from 1.0
SumRadiiFromOne(s) == SumFrom(s, 1, One)

\* double sum = 0.0; for (const auto& c : s) sum += c->getRadius();
SumRadii(s) == SumFrom(s, 1, 0)

---------------------------------------------------------------------------
(* main() *)

Init ==
    /\ pc = "populate"
    /\ i = 0
    /\ heap = <<>>
    /\ calls = <<>>
    /\ curves = <<>>
    /\ circles = <<>>
    /\ sum = 0
    /\ out = <<>>

\* curves.push_back(std::make_shared<...>(...)); ++i
PushBack(obj, call) ==
    /\ heap' = Append(heap, obj)
    /\ calls' = Append(calls, call)
    /\ curves' = Append(curves, Len(heap) + 1)
    /\ i' = i + 1
    /\ UNCHANGED <<pc, circles, sum, out>>

PopulateCircle ==
    /\ pc = "populate"
    /\ i < NumCurves
    /\ \E a \in Samples : PushBack(Circle(a), [class |-> "Circle", radius |-> a])

PopulateEllipse ==
    /\ pc = "populate"
    /\ i < NumCurves
    /\ \E a, b \in Samples : PushBack(Ellipse(a, b), [class |-> "Ellipse", rx_ |-> a, ry_ |-> b])

PopulateHelix ==
    /\ pc = "populate"
    /\ i < NumCurves
    /\ \E a, b \in Samples : PushBack(Helix(a, b), [class |-> "Helix", radius |-> a, step_ |-> b])

\* the populate loop ends; the heading of the evaluation is printed
BeginEvaluate ==
    /\ pc = "populate"
    /\ ~(i < NumCurves)
    /\ out' = Append(out, TextLine("Curves at t = PI/4:"))
    /\ pc' = "evaluate"
    /\ i' = 1
    /\ UNCHANGED <<heap, calls, curves, circles, sum>>

\* the loop that prints point and derivative, run from the last curve to the first
EvaluateReversed ==
    /\ pc = "evaluate"
    /\ i <= Len(curves)
    /\ out' = Append(out, PointLine(heap[curves[Len(curves) + 1 - i]]))
    /\ i' = i + 1
    /\ UNCHANGED <<pc, heap, calls, curves, circles, sum>>

\* one pass of the loop that prints point and derivative
Evaluate ==
    /\ pc = "evaluate"
    /\ i <= Len(curves)
    /\ out' = Append(out, PointLine(heap[curves[i]]))
    /\ i' = i + 1
    /\ UNCHANGED <<pc, heap, calls, curves, circles, sum>>

\* the evaluation loop ends; circles is declared, empty
BeginFilter ==
    /\ pc = "evaluate"
    /\ i > Len(curves)
    /\ circles' = <<>>
    /\ pc' = "filter"
    /\ i' = 1
    /\ UNCHANGED <<heap, calls, curves, sum, out>>

\* the filter loop pushing a copy of the circle: std::make_shared<Circle>(*circle)
FilterCopies ==
    /\ pc = "filter"
    /\ i <= Len(curves)
    /\ IF heap[curves[i]].tag = "Circle"
          THEN /\ heap' = Append(heap, heap[curves[i]])
               /\ calls' = Append(calls, calls[curves[i]])
               /\ circles' = Append(circles, Len(heap) + 1)
          ELSE UNCHANGED <<heap, calls, circles>>
    /\ i' = i + 1
    /\ UNCHANGED <<pc, curves, sum, out>>

\* one pass of the filter loop
Filter ==
    /\ pc = "filter"
    /\ i <= Len(curves)
    /\ circles' = IF IsCircle(curves[i]) THEN Append(circles, curves[i]) ELSE circles
    /\ i' = i + 1
    /\ UNCHANGED <<pc, heap, calls, curves, sum, out>>

\* the filter loop ends
EndFilter ==
    /\ pc = "filter"
    /\ i > Len(curves)
    /\ pc' = "sort"
    /\ UNCHANGED <<i, heap, calls, curves, circles, sum, out>>

\* std::sort, then the heading of the radii
Sort ==
    /\ pc = "sort"
    /\ circles' \in StdSort(circles)
    /\ out' = Append(out, TextLine("Sorted circles by radius:"))
    /\ pc' = "radii"
    /\ i' = 1
    /\ UNCHANGED <<heap, calls, curves, sum>>

\* one pass of the loop that prints the radii
PrintRadius ==
    /\ pc = "radii"
    /\ i <= Len(circles)
    /\ out' = Append(out, RadiusLine(getRadius(heap[circles[i]])))
    /\ i' = i + 1
    /\ UNCHANGED <<pc, heap, calls, curves, circles, sum>>

\* the loop of the radii ends; the sum of the radii is computed
Aggregate ==
    /\ pc = "radii"
    /\ i > Len(circles)
    /\ sum' = SumRadii(circles)
    /\ pc' = "total"
    /\ UNCHANGED <<i, heap, calls, curves, circles, out>>

\* the total is printed; return 0
PrintTotal ==
    /\ pc = "total"
    /\ out' = Append(out, SumLine(sum))
    /\ pc' = "done"
    /\ UNCHANGED <<i, heap, calls, curves, circles, sum>>

Next ==
    \/ PopulateCircle
    \/ PopulateEllipse
    \/ PopulateHelix
    \/ BeginEvaluate
    \/ Evaluate
    \/ BeginFilter
    \/ Filter
    \/ EndFilter
    \/ Sort
    \/ PrintRadius
    \/ Aggregate
    \/ PrintTotal

Spec == Init /\ [][Next]_vars

\* main() is one thread that nothing suspends: a step that can be taken is taken
FairSpec == Spec /\ WF_vars(Next)

---------------------------------------------------------------------------
(* The constructors on arbitrary arguments *)

CtorInit ==
    /\ pc = "ctor"
    /\ i = 0
    /\ heap = <<>>
    /\ calls = <<>>
    /\ curves = <<>>
    /\ circles = <<>>
    /\ sum = 0
    /\ out = <<>>

\* std::make_shared<...>(...): the constructor runs and the object exists
Construct(obj, call) ==
    /\ Len(heap) < MaxCalls
    /\ heap' = Append(heap, obj)
    /\ calls' = Append(calls, call)
    /\ UNCHANGED <<pc, i, curves, circles, sum, out>>

CtorCircle ==
    /\ pc = "ctor"
    /\ \E a \in ArgValues : Construct(Circle(a), [class |-> "Circle", radius |-> a])

CtorEllipse ==
    /\ pc = "ctor"
    /\ \E a, b \in ArgValues :
          Construct(Ellipse(a, b), [class |-> "Ellipse", rx_ |-> a, ry_ |-> b])

CtorHelix ==
    /\ pc = "ctor"
    /\ \E a, b \in ArgValues :
          Construct(Helix(a, b), [class |-> "Helix", radius |-> a, step_ |-> b])

CtorNext == CtorCircle \/ CtorEllipse \/ CtorHelix

SpecCtor == CtorInit /\ [][CtorNext]_vars

---------------------------------------------------------------------------
(* The sort applied twice to a filtered sequence *)

\* main() at the sort, with a filtered sequence of up to NumCurves circles
SortInit ==
    \E n \in 0 .. NumCurves : \E rs \in [1 .. n -> SortSamples] :
        /\ pc = "sort"
        /\ i = n + 1
        /\ heap = [k \in 1 .. n |-> Circle(rs[k])]
        /\ calls = [k \in 1 .. n |-> [class |-> "Circle", radius |-> rs[k]]]
        /\ curves = [k \in 1 .. n |-> k]
        /\ circles = [k \in 1 .. n |-> k]
        /\ sum = 0
        /\ out = <<>>

\* std::sort on the filtered sequence, and the sum of the radii
SortFirst ==
    /\ pc = "sort"
    /\ circles' \in StdSort(circles)
    /\ sum' = SumRadii(circles')
    /\ pc' = "resort"
    /\ UNCHANGED <<i, heap, calls, curves, out>>

\* std::sort again, on the sorted sequence, and the sum of the radii
SortAgain ==
    /\ pc = "resort"
    /\ circles' \in StdSort(circles)
    /\ sum' = SumRadii(circles')
    /\ pc' = "done"
    /\ UNCHANGED <<i, heap, calls, curves, out>>

SortNext == SortFirst \/ SortAgain

SpecSort == SortInit /\ [][SortNext]_vars

---------------------------------------------------------------------------
(* Vocabulary of the properties *)

\* the position of x in the sequence s
Pos(s, x) == CHOOSE j \in DOMAIN s : s[j] = x

\* how many times x occurs in the sequence s
Count(s, x) == Cardinality({k \in DOMAIN s : s[k] = x})

\* the radius of the circle a pointer refers to
RadiusOf(ref) == heap[ref].r

\* the populate loop has made all its curves
Populated == ~(pc = "populate" /\ i < NumCurves)

\* the circles of the mixed sequence, in the order of the mixed sequence
CirclesOfCurves == SelectSeq(curves, LAMBDA ref : heap[ref].tag = "Circle")

\* the mixed sequence holds no Circle
NoCircle == \A j \in DOMAIN curves : heap[curves[j]].tag # "Circle"

\* the lines of one kind, in the order they were written
LinesOf(kind) == SelectSeq(out, LAMBDA line : line.kind = kind)

RECURSIVE ExactSum(_, _)
\* the sum of the radii of s[1 .. k] in exact arithmetic
ExactSum(s, k) == IF k = 0 THEN 0 ELSE ExactSum(s, k - 1) + RadiusOf(s[k])

\* no addition of the left-to-right sum over s rounds
NoRounding(s) == \A k \in DOMAIN s : RoundSig(ExactSum(s, k)) = ExactSum(s, k)

RECURSIVE Ascending(_)
\* the radii of the pointers of s, in ascending order (by insertion of the last one)
Ascending(s) ==
    IF s = <<>> THEN <<>>
    ELSE LET rest == Ascending(SubSeq(s, 1, Len(s) - 1))
             v    == RadiusOf(s[Len(s)])
             n    == Cardinality({k \in DOMAIN rest : rest[k] <= v})
         IN  SubSeq(rest, 1, n) \o <<v>> \o SubSeq(rest, n + 1, Len(rest))

RECURSIVE RoundedSum(_, _)
\* the sum of the values of rs[1 .. k], each addition rounded
RoundedSum(rs, k) == IF k = 0 THEN 0 ELSE RoundSig(RoundedSum(rs, k - 1) + rs[k])

---------------------------------------------------------------------------
(* C1: filter by variant *)

\* how many curves the filter loop has examined
Scanned == IF pc = "filter" THEN i - 1 ELSE Len(curves)

\* C1: while and right after the filter loop, the filtered sequence holds
\* exactly the Circle elements of the part of the mixed sequence examined so
\* far: every element of it is a Circle of that part, every Circle of that
\* part is in it exactly once, and its elements are in the order of the
\* mixed sequence.
FilterExact ==
    pc \in {"filter", "sort"} =>
        /\ \A k \in DOMAIN circles :
              \E j \in 1 .. Scanned : curves[j] = circles[k] /\ heap[curves[j]].tag = "Circle"
        /\ \A j \in 1 .. Scanned :
              Count(circles, curves[j]) = (IF heap[curves[j]].tag = "Circle" THEN 1 ELSE 0)
        /\ \A k, l \in DOMAIN circles :
              k < l => Pos(curves, circles[k]) < Pos(curves, circles[l])

\* the filter has run over a mixed sequence with a non-circle between two circles
FilterExactWitness ==
    /\ pc = "sort"
    /\ Len(curves) = NumCurves
    /\ heap[curves[1]].tag = "Circle"
    /\ heap[curves[2]].tag # "Circle"
    /\ heap[curves[3]].tag = "Circle"
    /\ circles = <<curves[1], curves[3]>>

---------------------------------------------------------------------------
(* C2: stability of the sort *)

\* C2: the sort step leaves any two circles of equal radius in the relative
\* order they had in the filtered sequence before the sort.
SortStable ==
    [][pc = "sort" =>
          \A a, b \in DOMAIN circles' :
              (a < b /\ RadiusOf(circles'[a]) = RadiusOf(circles'[b]))
                  => Pos(circles, circles'[a]) < Pos(circles, circles'[b])]_vars

---------------------------------------------------------------------------
(* C3: the sort orders and permutes *)

\* C3: the sort step leaves the filtered sequence in non-decreasing order of
\* radius, of the same length, and holding every circle instance as many
\* times as before the step.
SortAscendingPermutation ==
    [][pc = "sort" =>
          /\ \A a, b \in DOMAIN circles' :
                a < b => RadiusOf(circles'[a]) <= RadiusOf(circles'[b])
          /\ Len(circles') = Len(circles)
          /\ \A ref \in DOMAIN heap : Count(circles', ref) = Count(circles, ref)]_vars

\* the sort has moved circles: the sorted sequence differs from the filtered one
SortAscendingPermutationWitness ==
    /\ pc = "radii"
    /\ Len(circles) = NumCurves
    /\ circles # CirclesOfCurves
    /\ RadiusOf(circles[1]) < RadiusOf(circles[Len(circles)])

---------------------------------------------------------------------------
(* C4: the aggregate *)

\* C4 as stated: once computed, the sum is the sum of the radii of the Circle
\* elements of the mixed sequence, and summing the filtered sequence in its
\* order before the sort gives the same value as summing it after the sort.
SumExactAndOrderFree ==
    pc \in {"total", "done"} =>
        /\ sum = ExactSum(CirclesOfCurves, Len(CirclesOfCurves))
        /\ SumRadii(CirclesOfCurves) = SumRadii(circles)

\* C4 as amended: once computed, the sum is the left-to-right sum, each
\* addition rounded to a double, of the radii of the Circle elements of the
\* mixed sequence taken in ascending order, whatever order the sort gave to
\* equal radii; it is the exact sum when no addition of that sum rounds, and
\* it is the sum in the order before the sort when no addition of either
\* sum rounds.
SumInSortedOrder ==
    pc \in {"total", "done"} =>
        /\ sum = RoundedSum(Ascending(CirclesOfCurves), Len(CirclesOfCurves))
        /\ NoRounding(circles) => sum = ExactSum(CirclesOfCurves, Len(CirclesOfCurves))
        /\ (NoRounding(circles) /\ NoRounding(CirclesOfCurves))
              => sum = SumRadii(CirclesOfCurves)

\* the sum was computed where the order of summation matters
SumInSortedOrderWitness ==
    /\ pc = "done"
    /\ Len(circles) = NumCurves
    /\ circles # CirclesOfCurves
    /\ sum # SumRadii(CirclesOfCurves)

\* the sum was computed over reordered circles with no rounding at all
SumNoRoundingWitness ==
    /\ pc = "done"
    /\ Len(circles) >= 2
    /\ circles # CirclesOfCurves
    /\ NoRounding(circles)
    /\ NoRounding(CirclesOfCurves)

---------------------------------------------------------------------------
(* C5: clamping of the radii *)

\* the value the claim gives for a stored radius: the argument when it is
\* above 0, 1.0 when it is 0 or below (NaN is neither)
ClampedAs(stored, arg) ==
    /\ (arg # NaN /\ arg > 0) => stored = arg
    /\ (arg # NaN /\ arg <= 0) => stored = One
    /\ stored # NaN /\ stored > 0

\* C5: every constructor call yields an object of its class; each stored
\* radius is the argument when the argument is above 0 and 1.0 when it is 0
\* or below, and is above 0 in every case; a Circle made from an argument
\* of 0 or below is the same object value as Circle(1.0), with the same
\* point and derivative.
CtorClamps ==
    /\ Len(heap) = Len(calls)
    /\ \A k \in DOMAIN heap :
          LET c == calls[k]
              o == heap[k]
          IN  /\ o.tag = c.class
              /\ c.class = "Circle" =>
                    /\ ClampedAs(o.r, c.radius)
                    /\ (c.radius # NaN /\ c.radius <= 0) =>
                          /\ o = Circle(One)
                          /\ getPoint(o) = getPoint(Circle(One))
                          /\ getDerivative(o) = getDerivative(Circle(One))
              /\ c.class = "Ellipse" =>
                    /\ ClampedAs(o.rx, c.rx_)
                    /\ ClampedAs(o.ry, c.ry_)
              /\ c.class = "Helix" => ClampedAs(o.r, c.radius)

\* a Circle was made from 0.0, and an Ellipse from one axis below 0 and one above
CtorClampsWitness ==
    /\ pc = "ctor"
    /\ \E k \in DOMAIN heap :
          calls[k] = [class |-> "Circle", radius |-> 0] /\ heap[k].r = One
    /\ \E k \in DOMAIN heap :
          /\ calls[k] = [class |-> "Ellipse", rx_ |-> 0 - 2 * One, ry_ |-> 3 * One]
          /\ heap[k].rx = One
          /\ heap[k].ry = 3 * One

---------------------------------------------------------------------------
(* C9: the pitch of a helix *)

\* C9: a Helix stores its pitch argument unchanged, whatever its sign, and
\* its radius is clamped as for the other classes whatever the pitch is.
HelixPitchKept ==
    \A k \in DOMAIN heap :
        calls[k].class = "Helix" =>
            /\ heap[k].step = calls[k].step_
            /\ ClampedAs(heap[k].r, calls[k].radius)
            /\ heap[k].r = Circle(calls[k].radius).r

\* a Helix was made from a radius below 0 and a pitch below 0
HelixPitchKeptWitness ==
    /\ pc = "ctor"
    /\ \E k \in DOMAIN heap :
          /\ calls[k] = [class |-> "Helix", radius |-> 0 - 2 * One, step_ |-> 0 - 2 * One]
          /\ heap[k].r = One
          /\ heap[k].step = 0 - 2 * One
    /\ \E k \in DOMAIN heap :
          /\ calls[k] = [class |-> "Helix", radius |-> 3 * One, step_ |-> 0]
          /\ heap[k].step = 0

---------------------------------------------------------------------------
(* C6: no circle at all *)

\* C6: when the populated mixed sequence holds no Circle, the filtered
\* sequence is empty at every later point (the sort leaves it empty), no
\* radius line is written, the sum is 0, main() can always take its next
\* step until it has returned, and the last line written is then the sum
\* line, with 0.
EmptyFilter ==
    (Populated /\ NoCircle) =>
        /\ circles = <<>>
        /\ LinesOf("radius") = <<>>
        /\ sum = 0
        /\ pc # "done" => ENABLED Next
        /\ pc = "done" => (out # <<>> /\ out[Len(out)] = SumLine(0)
                                      /\ Len(LinesOf("sum")) = 1)

\* main() has returned after a run with no Circle
EmptyFilterWitness ==
    /\ pc = "done"
    /\ Len(curves) = NumCurves
    /\ NoCircle
    /\ out[Len(out)] = SumLine(0)

---------------------------------------------------------------------------
(* C7: sorting a sorted sequence *)

\* C7: the sort applied to an already sorted filtered sequence leaves every
\* position of it as it was, circles of equal radius included, and the sum
\* of the radii as it was.
ResortSame ==
    [][pc = "resort" => (circles' = circles /\ sum' = sum)]_vars

---------------------------------------------------------------------------
(* C8: the order of the output *)

\* the place of a kind of line in the output
Rank(kind) == CASE kind = "point" -> 1 [] kind = "radius" -> 2 [] kind = "sum" -> 3

\* the lines of the output that carry values
ValueLines == SelectSeq(out, LAMBDA line : line.kind # "text")

\* C8: at every moment the point lines written precede the radius lines
\* written, which precede the sum line; when main() has returned there are
\* exactly NumCurves point lines, the k-th for the k-th curve of the mixed
\* sequence, then one radius line per circle of the filtered sequence in
\* its sorted order, then one sum line, which is the last line; and main()
\* always returns.
OutputOrder ==
    /\ [](\A a, b \in DOMAIN ValueLines :
              a < b => Rank(ValueLines[a].kind) <= Rank(ValueLines[b].kind))
    /\ [](pc = "done" =>
              /\ Len(curves) = NumCurves
              /\ LinesOf("point") = [k \in 1 .. NumCurves |-> PointLine(heap[curves[k]])]
              /\ LinesOf("radius") = [k \in 1 .. Len(circles) |-> RadiusLine(RadiusOf(circles[k]))]
              /\ \A a, b \in DOMAIN circles :
                    a < b => RadiusOf(circles[a]) <= RadiusOf(circles[b])
              /\ LinesOf("sum") = <<SumLine(sum)>>
              /\ out[Len(out)].kind = "sum")
    /\ <>(pc = "done")

\* main() has returned after printing distinct curves and reordered circles
OutputOrderWitness ==
    /\ pc = "done"
    /\ Len(LinesOf("point")) = NumCurves
    /\ heap[curves[1]] # heap[curves[NumCurves]]
    /\ Len(LinesOf("radius")) >= 2
    /\ circles # CirclesOfCurves

---------------------------------------------------------------------------
(* C10: the mixed sequence is only read *)

\* C10: once the populate loop has made its curves, no step changes the
\* mixed sequence or any curve object, and no step allocates an object;
\* after every step each element of the filtered sequence is a pointer
\* that the mixed sequence holds too, and the sort step changes the
\* filtered sequence only by reordering it.
MixedUnchanged ==
    [][/\ Populated => (curves' = curves /\ heap' = heap)
       /\ \A k \in DOMAIN circles' : \E j \in DOMAIN curves' : curves'[j] = circles'[k]
       /\ pc = "sort" => \A ref \in DOMAIN heap : Count(circles', ref) = Count(circles, ref)]_vars

\* main() has returned with two containers sharing reordered circle instances
MixedUnchangedWitness ==
    /\ pc = "done"
    /\ Len(circles) >= 2
    /\ circles # CirclesOfCurves
    /\ \A k \in DOMAIN circles : \E j \in DOMAIN curves : curves[j] = circles[k]

====
